---------------------------- MODULE Spec2Model ----------------------------
(***************************************************************************)
(* A model of Placemat_Generator.py: the line parser (parse_input), the    *)
(* decoration loop of compose_tag with the motif helpers it calls, the     *)
(* grid layout of build_pdf, and the control flow of main.                 *)
(*                                                                         *)
(* Each of the four functions has its own specification (SpecParse,        *)
(* SpecTag, SpecPdf, SpecMain); the variables of the other functions keep  *)
(* their idle values under it.                                             *)
(*                                                                         *)
(* Text is a sequence of one-character strings, so that strip(), lower()   *)
(* and startswith() are computed and not assumed.  Lengths on the page are *)
(* integers in units of 1/2540 inch (0.01 mm), in which both page presets, *)
(* the inch and the 0.1 inch gap are whole numbers; cell sizes, which the  *)
(* code divides by cols and by the tag width, are kept as numerators over  *)
(* the common denominator cols * tag_w (exact rational arithmetic in the   *)
(* place of the code's binary floating point).                             *)
(***************************************************************************)
EXTENDS Integers, Sequences, FiniteSets, TLC

VARIABLES
    \* parse_input
    fh,              \* the raw lines the file iterator yields
    pos,             \* number of lines consumed by the for loop
    current_table,   \* local current_table
    results,         \* local results
    ppc,             \* "idle" | "loop" | "done"
    \* compose_tag (decoration loop)
    size,            \* <<W, H>>
    random_bubbles,  \* flag
    flowers,         \* flag
    shape,           \* iterations of `for _ in range(80)` that have ended
    retries,         \* local retries
    placed,          \* local placed: sequence of <<cx, cy, r>>
    stamps,          \* what the latest pass of the while loop drew
    tpc,             \* "idle" | "start" | "while" (at `while retries:`) | "done"
    \* build_pdf
    page_size_name,  \* "a4" | "letter"
    margin_inch,     \* margin in twentieths of an inch
    cols,            \* cols
    tag_size_px,     \* <<tag_w_px, tag_h_px>>
    npaths,          \* len(paths)
    rows,            \* local rows
    idx,             \* loop index of `for idx, p in enumerate(paths)`
    breaks,          \* number of c.showPage() calls made by the loop
    pages,           \* pages of the saved document (0 before c.save())
    drawn,           \* sequence of drawImage calls
    bpc,             \* "idle" | "layout" | "loop" | "saved" | "raised"
    \* main
    arg_size,        \* --size
    arg_input,       \* the raw lines of the input file
    tag_wh,          \* locals W, H
    out_dir,         \* whether Placemats/ has been created
    entries,         \* local entries
    tag_paths,       \* local tag_paths
    composed,        \* number of compose_tag calls made
    disk,            \* files written under Placemats/
    exit_status,     \* -1 while running, else the process exit status
    mpc              \* "idle" | "args" | "mkdir" | "parse" | "check" | "tags" | "exit"

parseVars == <<fh, pos, current_table, results, ppc>>
tagVars   == <<size, random_bubbles, flowers, shape, retries, placed, stamps, tpc>>
pdfVars   == <<page_size_name, margin_inch, cols, tag_size_px, npaths, rows, idx,
               breaks, pages, drawn, bpc>>
mainVars  == <<arg_size, arg_input, tag_wh, out_dir, entries, tag_paths, composed, disk,
               exit_status, mpc>>
vars      == <<parseVars, tagVars, pdfVars, mainVars>>

\* What each function leaves alone: the state of the other three
notParse == <<tagVars, pdfVars, mainVars>>
notTag   == <<parseVars, pdfVars, mainVars>>
notPdf   == <<parseVars, tagVars, mainVars>>
notMain  == <<parseVars, tagVars, pdfVars>>

---------------------------------------------------------------------------
(* Text helpers: str.strip(), str.lower(), str.startswith().               *)

UpperChars == <<"A","B","C","D","E","F","G","H","I","J","K","L","M",
                "N","O","P","Q","R","S","T","U","V","W","X","Y","Z">>
LowerChars == <<"a","b","c","d","e","f","g","h","i","j","k","l","m",
                "n","o","p","q","r","s","t","u","v","w","x","y","z">>
DigitChars == <<"0","1","2","3","4","5","6","7","8","9">>

IsSpace(c) == c \in {" ", "\t", "\n", "\r"}

RECURSIVE LStrip(_)
LStrip(s) == IF s # <<>> /\ IsSpace(Head(s)) THEN LStrip(Tail(s)) ELSE s

RECURSIVE RStrip(_)
RStrip(s) ==
    IF s # <<>> /\ IsSpace(s[Len(s)]) THEN RStrip(SubSeq(s, 1, Len(s) - 1)) ELSE s

Strip(s) == RStrip(LStrip(s))

LowerChar(c) ==
    IF \E i \in 1..Len(UpperChars) : UpperChars[i] = c
    THEN LowerChars[CHOOSE i \in 1..Len(UpperChars) : UpperChars[i] = c]
    ELSE c

Lower(s) == [i \in 1..Len(s) |-> LowerChar(s[i])]

StartsWith(s, p) == Len(s) >= Len(p) /\ SubSeq(s, 1, Len(p)) = p

TableWord == <<"t","a","b","l","e">>

---------------------------------------------------------------------------
(* parse_input                                                             *)

\* line.lower().startswith("table"), compared exactly as written
IsTableLineCaseSensitive(line) == StartsWith(line, TableWord)

\* line.lower().startswith("table")
IsTableLine(line) == StartsWith(Lower(line), TableWord)

\* One iteration of `for raw in fh` that also forgets the table on a blank line
ParseStepResetOnBlank(st, raw) ==
    LET line == Strip(raw) IN
    IF line = <<>> THEN [st EXCEPT !.current_table = <<>>]
    ELSE IF IsTableLine(line) THEN [st EXCEPT !.current_table = line]
    ELSE [st EXCEPT !.results = Append(@, <<st.current_table, line>>)]

\* One iteration of `for raw in fh`
ParseStep(st, raw) ==
    LET line == Strip(raw) IN
    IF line = <<>> THEN st
    ELSE IF IsTableLine(line) THEN [st EXCEPT !.current_table = line]
    ELSE [st EXCEPT !.results = Append(@, <<st.current_table, line>>)]

RECURSIVE ParseFrom(_, _)
ParseFrom(st, lines) ==
    IF lines = <<>> THEN st ELSE ParseFrom(ParseStep(st, Head(lines)), Tail(lines))

\* parse_input as one call: the value it returns
ParseInput(lines) ==
    ParseFrom([current_table |-> <<>>, results |-> <<>>], lines).results

MaxLines == 3

\* Raw lines the bounded files are made of, each with its line terminator
LinePool ==
    { <<"\n">>,
      <<" "," ","\n">>,
      <<"T","a","b","l","e"," ","1","\n">>,
      <<"T","A","B","L","E","2","\n">>,
      <<" ","t","a","b","l","e"," ","\n">>,
      <<"T","a","b","l","e","t","\n">>,
      <<"S","t","a","b","l","e","\n">>,
      <<" ","A","l"," ","\n">>,
      <<"B","o","\n">> }

\* "Table 1\nAlice Smith\nBob Jones\n\nCarol Lee"
ScenarioFile ==
    << <<"T","a","b","l","e"," ","1","\n">>,
       <<"A","l","i","c","e"," ","S","m","i","t","h","\n">>,
       <<"B","o","b"," ","J","o","n","e","s","\n">>,
       <<"\n">>,
       <<"C","a","r","o","l"," ","L","e","e">> >>

Files == UNION { [1..n -> LinePool] : n \in 0..MaxLines } \cup { ScenarioFile }

ParseIdle ==
    /\ fh = <<>> /\ pos = 0 /\ current_table = <<>> /\ results = <<>> /\ ppc = "idle"

ParseInit ==
    /\ fh \in Files
    /\ pos = 0
    /\ current_table = <<>>
    /\ results = <<>>
    /\ ppc = "loop"

ReadLine ==
    /\ ppc = "loop"
    /\ pos < Len(fh)
    /\ LET st == ParseStep([current_table |-> current_table, results |-> results],
                           fh[pos + 1])
       IN /\ current_table' = st.current_table
          /\ results' = st.results
    /\ pos' = pos + 1
    /\ UNCHANGED <<fh, ppc>>
    /\ UNCHANGED notParse

ParseReturn ==
    /\ ppc = "loop"
    /\ pos = Len(fh)
    /\ ppc' = "done"
    /\ UNCHANGED <<fh, pos, current_table, results>>
    /\ UNCHANGED notParse

ParseNext == ReadLine \/ ParseReturn

---------------------------------------------------------------------------
(* compose_tag: the decoration loop, and the motif helpers it calls        *)

NUM_SHAPES   == 80      \* for _ in range(80)
RETRY_BUDGET == 50      \* retries = 50

\* The model samples centres only from the corner 0..MaxCX by SampledYs of
\* the canvas.
MaxCX == 3
SampledYs == 0..2

Min(a, b) == IF a <= b THEN a ELSE b
Max(a, b) == IF a >= b THEN a ELSE b

\* min(W, H) // 30 and min(W, H) // 15, the arguments of the first randint
RadiusLo(sz) == Min(sz[1], sz[2]) \div 30
RadiusHi(sz) == Min(sz[1], sz[2]) \div 15

\* The values random.randint(r, W - r) and random.randint(r, H - r) can give
CentreXs(sz, r) == r .. Min(sz[1] - r, MaxCX)
CentreYs(sz, r) == (r .. (sz[2] - r)) \cap SampledYs

\* math.hypot(dx, dy) >= s for integers dx, dy and s >= 0
HypotAtLeast(dx, dy, s) == dx * dx + dy * dy >= s * s

\* The acceptance test with the radius of the placed shape left out
FitsIgnoringPlacedRadius(cx, cy, r, pl) ==
    \A i \in 1..Len(pl) : HypotAtLeast(cx - pl[i][1], cy - pl[i][2], r)

\* all(math.hypot(cx - x, cy - y) >= r + pr for x, y, pr in placed)
Fits(cx, cy, r, pl) ==
    \A i \in 1..Len(pl) : HypotAtLeast(cx - pl[i][1], cy - pl[i][2], r + pl[i][3])

\* retries -= 1
RetriesAfterReject(n) == n - 1

Motifs == {"flower", "heart", "wine", "diamond"}

\* The points a drawing function draws, relative to the centre it is given,
\* in hundredths of a pixel (x to the right, y down).
\* d.ellipse([(cx - r, cy - r), (cx + r, cy + r)])
BubblePoints(r) == { <<-100 * r, 0>>, <<100 * r, 0>>, <<0, -100 * r>>, <<0, 100 * r>> }

\* draw_flower: every petal is a point at distance half_w, r, half_w from the
\* centre at some angle, and the disc has radius r // 6; the points are given
\* here at angle 0 (the distance from the centre does not depend on the angle).
FlowerPoints(r) == { <<100 * r, 0>>, <<100 * (r \div 2), 0>>, <<100 * (r \div 6), 0>> }

\* draw_heart: the corners of the upper halves of the two lobe boxes, and the
\* triangle
HeartPoints(r) ==
    { <<-60 * r, -35 * r>>, <<0, -35 * r>>, <<-60 * r, -5 * r>>, <<0, -5 * r>>,
      <<60 * r, -35 * r>>, <<60 * r, -5 * r>>,
      <<0, 100 * r>> }

\* draw_wine_glass
WinePoints(h) ==
    LET bowl_height == (6 * h) \div 10      \* int(h * 0.6)
        bowl_width  == h \div 2
        stem_height == (3 * h) \div 10      \* int(h * 0.3)
        base_width  == bowl_width
        stem_width  == h \div 15
        base_height == h \div 20
        stem_bottom == bowl_height + stem_height
    IN  { <<-100 * (bowl_width \div 2), 0>>, <<100 * (bowl_width \div 2), 0>>,
          <<100 * (bowl_width \div 6), 100 * bowl_height>>,
          <<-100 * (bowl_width \div 6), 100 * bowl_height>>,
          <<-100 * (stem_width \div 2), 100 * stem_bottom>>,
          <<100 * (stem_width \div 2), 100 * stem_bottom>>,
          <<-100 * (base_width \div 3), 100 * stem_bottom + 50 * base_height>>,
          <<100 * (base_width \div 3), 100 * stem_bottom + 50 * base_height>>,
          <<0, 100 * (stem_bottom + base_height)>> }

\* draw_diamond
DiamondPoints(r) ==
    { <<-64 * r, 0>>, <<-32 * r, -64 * r>>, <<0, -59 * r>>, <<32 * r, -64 * r>>,
      <<64 * r, 0>>, <<0, 80 * r>> }

\* What draw_fn(temp_draw, bbox_size // 2, bbox_size // 2, size, colour) leaves
\* on the temporary image of side 2 * size: drawing outside it is cut off
ClipToTemp(v, sz) == Max(-100 * sz, Min(100 * sz, v))

MotifPoints(motif, sz) ==
    LET pts == CASE motif = "flower"  -> FlowerPoints(sz)
                 [] motif = "heart"   -> HeartPoints(sz)
                 [] motif = "wine"    -> WinePoints(sz)
                 [] motif = "diamond" -> DiamondPoints(sz)
    IN { <<ClipToTemp(p[1], sz), ClipToTemp(p[2], sz)>> : p \in pts }

\* The size compose_tag passes to draw_with_tilt for each motif
MotifSize(motif, r) == IF motif = "wine" THEN r * 2 ELSE r

\* The square of the greatest distance, in hundredths of a pixel, between the
\* centre (cx, cy) of a placement and a point drawn for it.  draw_with_tilt
\* rotates the temporary image about its centre and pastes it with that centre
\* on (cx, cy), so the distance is the same for every tilt.
RECURSIVE MaxOf(_)
MaxOf(S) == IF S = {} THEN 0
            ELSE LET x == CHOOSE x \in S : TRUE IN Max(x, MaxOf(S \ {x}))

Reach2(st) ==
    LET pts == IF st.kind = "bubble" THEN BubblePoints(st.size)
               ELSE MotifPoints(st.kind, st.size)
    IN MaxOf({ p[1] * p[1] + p[2] * p[2] : p \in pts })

\* random.choice(("flower", "heart", "wine", "diamond")), made only `if flowers`
MotifChoices(flo) == IF flo THEN Motifs ELSE {"none"}

\* What lines 214-226 draw for an accepted placement of radius r
StampsFor(bub, flo, motif, r) ==
    (IF bub THEN << [kind |-> "bubble", size |-> r] >> ELSE <<>>)
    \o (IF flo THEN << [kind |-> motif, size |-> MotifSize(motif, r)] >> ELSE <<>>)

CanvasSizes == { <<30, 30>> }

TagIdle ==
    /\ size = <<0, 0>> /\ random_bubbles = FALSE /\ flowers = FALSE
    /\ shape = 0 /\ retries = 0 /\ placed = <<>> /\ stamps = <<>> /\ tpc = "idle"

TagInit ==
    /\ size \in CanvasSizes
    /\ random_bubbles \in BOOLEAN
    /\ flowers \in BOOLEAN
    /\ shape = 0
    /\ retries = 0
    /\ placed = <<>>
    /\ stamps = <<>>
    /\ tpc = "start"

\* The budget of a shape, taken over from the shape before it
BudgetCarriedOver(left) == left

\* retries = 50, at the top of every iteration of the for loop
FreshBudget(left) == RETRY_BUDGET

\* The for loop after `done` of its iterations have ended: the next iteration
\* starts and control is at `while retries:`, or range(80) is exhausted
ForAdvance(done) ==
    IF done < NUM_SHAPES
    THEN /\ retries' = FreshBudget(retries)
         /\ tpc' = "while"
    ELSE /\ tpc' = "done"
         /\ UNCHANGED retries

\* if random_bubbles or flowers: placed = []; the first iteration starts
Decorate ==
    /\ tpc = "start"
    /\ random_bubbles \/ flowers
    /\ ForAdvance(0)
    /\ UNCHANGED <<size, random_bubbles, flowers, shape, placed, stamps>>
    /\ UNCHANGED notTag

\* neither flag: the block is skipped
SkipDecoration ==
    /\ tpc = "start"
    /\ ~(random_bubbles \/ flowers)
    /\ tpc' = "done"
    /\ UNCHANGED <<size, random_bubbles, flowers, shape, retries, placed, stamps>>
    /\ UNCHANGED notTag

\* One pass of `while retries:` with retries # 0: a candidate is sampled; when
\* it fits it is drawn and recorded and `break` ends the iteration of the for
\* loop, else the retry is counted down
Try ==
    /\ tpc = "while"
    /\ retries # 0
    /\ \E r \in RadiusLo(size)..RadiusHi(size) :
       \E cx \in CentreXs(size, r) :
       \E cy \in CentreYs(size, r) :
          IF Fits(cx, cy, r, placed)
          THEN /\ \E motif \in MotifChoices(flowers) :
                    stamps' = StampsFor(random_bubbles, flowers, motif, r)
               /\ placed' = Append(placed, <<cx, cy, r>>)
               /\ shape' = shape + 1
               /\ ForAdvance(shape + 1)
          ELSE /\ retries' = RetriesAfterReject(retries)
               /\ stamps' = <<>>
               /\ UNCHANGED <<placed, shape, tpc>>
    /\ UNCHANGED <<size, random_bubbles, flowers>>
    /\ UNCHANGED notTag

\* `while retries:` with retries = 0: the shape is given up without a trace
\* and the for loop goes on
Exhausted ==
    /\ tpc = "while"
    /\ retries = 0
    /\ shape' = shape + 1
    /\ ForAdvance(shape + 1)
    /\ UNCHANGED <<size, random_bubbles, flowers, placed, stamps>>
    /\ UNCHANGED notTag

TagNext == Decorate \/ SkipDecoration \/ Try \/ Exhausted

---------------------------------------------------------------------------
(* build_pdf.  Lengths are in units of 1/2540 inch.                        *)

inch     == 2540     \* reportlab.lib.units.inch (72 pt)
A4_W     == 21000    \* reportlab.lib.pagesizes.A4: 210 mm
A4_H     == 29700    \*                             297 mm
LETTER_W == 21590    \* reportlab.lib.pagesizes.letter: 8.5 inch
LETTER_H == 27940    \*                                 11 inch

MaxCols   == 3
MaxImages == 5

\* --margin values, in twentieths of an inch: 0, the 0.25 of the usage text,
\* the default 0.5, and 6 (wider than half of either page)
Margins == {0, 5, 10, 120}

\* --size values as tag_size_px
TagSizes == { <<2, 1>>, <<1, 1>>, <<1, 2>>, <<25, 1>> }

\* Floor of n / d for d # 0 (Python's // on floats, then int())
FloorDiv(n, d) == IF d > 0 THEN n \div d ELSE (-n) \div (-d)

\* Python's n % d for d # 0: the result has the sign of d
PyMod(n, d) == n - d * FloorDiv(n, d)

PageW(name) == IF name = "a4" THEN A4_W ELSE LETTER_W
PageH(name) == IF name = "a4" THEN A4_H ELSE LETTER_H

\* margin = margin_inch * inch
MarginOf(m) == (m * inch) \div 20

\* row_gap = col_gap = 0.1 * inch
Gap == inch \div 10

\* The common denominator of cell_w, cell_h, x and y
Den(c, tag) == c * tag[1]

\* cell_w = (PAGE_W - 2*margin) / cols, times Den
CellW(name, m, c, tag) == (PageW(name) - 2 * MarginOf(m)) * tag[1]

\* cell_h = cell_w * aspect with aspect = tag_h_px / tag_w_px, times Den
CellH(name, m, c, tag) == (PageW(name) - 2 * MarginOf(m)) * tag[2]

\* PAGE_H - 2*margin + row_gap, times Den
AvailH(name, m, c, tag) == (PageH(name) - 2 * MarginOf(m) + Gap) * Den(c, tag)

\* cell_h + row_gap, times Den
RowPitch(name, m, c, tag) == CellH(name, m, c, tag) + Gap * Den(c, tag)

\* int((PAGE_H - 2*margin + row_gap) // (cell_h + row_gap)); if rows == 0: rows = 1
RowsOf(name, m, c, tag) ==
    LET q == FloorDiv(AvailH(name, m, c, tag), RowPitch(name, m, c, tag))
    IN IF q = 0 THEN 1 ELSE q

\* x = margin + col * (cell_w + col_gap), times Den
XOf(name, m, c, tag, col) ==
    MarginOf(m) * Den(c, tag) + col * (CellW(name, m, c, tag) + Gap * Den(c, tag))

\* y = PAGE_H - margin - (row + 1) * (cell_h + row_gap) + row_gap, times Den
YOf(name, m, c, tag, row) ==
    (PageH(name) - MarginOf(m) + Gap) * Den(c, tag)
        - (row + 1) * RowPitch(name, m, c, tag)

\* total_per_page = cols * rows
total_per_page == cols * rows

PdfIdle ==
    /\ page_size_name = "a4" /\ margin_inch = 0 /\ cols = 0 /\ tag_size_px = <<0, 0>>
    /\ npaths = 0 /\ rows = 0 /\ idx = 0 /\ breaks = 0 /\ pages = 0 /\ drawn = <<>>
    /\ bpc = "idle"

PdfInit ==
    /\ page_size_name \in {"a4", "letter"}
    /\ margin_inch \in Margins
    /\ cols \in 0..MaxCols
    /\ tag_size_px \in TagSizes
    /\ npaths \in 1..MaxImages
    /\ rows = 0
    /\ idx = 0
    /\ breaks = 0
    /\ pages = 0
    /\ drawn = <<>>
    /\ bpc = "layout"

\* Whether line 277 or line 283 divides by zero
DividesByZero(name, m, c, tag) == c = 0 \/ RowPitch(name, m, c, tag) = 0

\* Lines 271-288: the geometry, when no division is by zero
Layout ==
    /\ bpc = "layout"
    /\ ~DividesByZero(page_size_name, margin_inch, cols, tag_size_px)
    /\ rows' = RowsOf(page_size_name, margin_inch, cols, tag_size_px)
    /\ bpc' = "loop"
    /\ UNCHANGED <<page_size_name, margin_inch, cols, tag_size_px, npaths, idx,
                   breaks, pages, drawn>>
    /\ UNCHANGED notPdf

\* Lines 277 and 283 raise ZeroDivisionError
LayoutRaises ==
    /\ bpc = "layout"
    /\ DividesByZero(page_size_name, margin_inch, cols, tag_size_px)
    /\ bpc' = "raised"
    /\ UNCHANGED <<page_size_name, margin_inch, cols, tag_size_px, npaths, rows, idx,
                   breaks, pages, drawn>>
    /\ UNCHANGED notPdf

\* One iteration of `for idx, p in enumerate(paths)`: drawImage, and showPage
\* when the page is full and images remain
DrawImage ==
    /\ bpc = "loop"
    /\ idx < npaths
    /\ LET page_idx  == FloorDiv(idx, total_per_page)
           local_idx == PyMod(idx, total_per_page)
           col       == PyMod(local_idx, cols)
           row       == FloorDiv(local_idx, cols)
       IN /\ drawn' = Append(drawn,
                 [idx |-> idx, page |-> breaks, page_idx |-> page_idx,
                  row |-> row, col |-> col,
                  x |-> XOf(page_size_name, margin_inch, cols, tag_size_px, col),
                  y |-> YOf(page_size_name, margin_inch, cols, tag_size_px, row)])
          /\ breaks' = IF PyMod(idx + 1, total_per_page) = 0 /\ idx + 1 < npaths
                       THEN breaks + 1 ELSE breaks
    /\ idx' = idx + 1
    /\ UNCHANGED <<page_size_name, margin_inch, cols, tag_size_px, npaths, rows,
                   pages, bpc>>
    /\ UNCHANGED notPdf

\* c.save(): the page being drawn is closed and the document written
Save ==
    /\ bpc = "loop"
    /\ idx = npaths
    /\ pages' = breaks + 1
    /\ bpc' = "saved"
    /\ UNCHANGED <<page_size_name, margin_inch, cols, tag_size_px, npaths, rows, idx,
                   breaks, drawn>>
    /\ UNCHANGED notPdf

PdfNext == Layout \/ LayoutRaises \/ DrawImage \/ Save

---------------------------------------------------------------------------
(* sanitize_filename and main                                              *)

SafeChars ==
    { UpperChars[i] : i \in 1..Len(UpperChars) }
        \cup { LowerChars[i] : i \in 1..Len(LowerChars) }
        \cup { DigitChars[i] : i \in 1..Len(DigitChars) }
        \cup { "_", "-" }

\* re.sub(r"[^A-Za-z0-9_\-]", "_", safe); the NFKD/ascii step leaves the
\* ASCII text of the model as it is
sanitize_filename(txt) ==
    [i \in 1..Len(txt) |-> IF txt[i] \in SafeChars THEN txt[i] ELSE "_"]

\* str.split("x")
RECURSIVE SplitX(_, _)
SplitX(s, cur) ==
    IF s = <<>> THEN <<cur>>
    ELSE IF Head(s) = "x" THEN <<cur>> \o SplitX(Tail(s), <<>>)
    ELSE SplitX(Tail(s), Append(cur, Head(s)))

IsDigit(c) == \E i \in 1..Len(DigitChars) : DigitChars[i] = c

\* Whether int(tok) returns rather than raising ValueError: surrounding
\* white space and one sign are allowed
IsIntLiteral(tok) ==
    LET t == Strip(tok)
        d == IF t # <<>> /\ Head(t) \in {"+", "-"} THEN Tail(t) ELSE t
    IN d # <<>> /\ \A i \in 1..Len(d) : IsDigit(d[i])

DigitValue(c) == (CHOOSE i \in 1..Len(DigitChars) : DigitChars[i] = c) - 1

RECURSIVE DigitsValue(_)
DigitsValue(d) ==
    IF d = <<>> THEN 0
    ELSE 10 * DigitsValue(SubSeq(d, 1, Len(d) - 1)) + DigitValue(d[Len(d)])

\* int(tok) for a literal
IntOf(tok) ==
    LET t == Strip(tok) IN
    IF Head(t) = "-" THEN -DigitsValue(Tail(t))
    ELSE IF Head(t) = "+" THEN DigitsValue(Tail(t))
    ELSE DigitsValue(t)

\* Whether `W, H = map(int, args.size.lower().split("x"))` returns
SizeParses(s) ==
    LET toks == SplitX(Lower(s), <<>>) IN
    Len(toks) = 2 /\ IsIntLiteral(toks[1]) /\ IsIntLiteral(toks[2])

SizeOf(s) ==
    LET toks == SplitX(Lower(s), <<>>) IN <<IntOf(toks[1]), IntOf(toks[2])>>

\* The test of line 332 with every input taken to hold names
HasEntriesAlways(e) == TRUE

\* `if not entries` of line 332, negated
HasEntries(e) == e # <<>>

PdfName == <<"N","a","m","e","T","a","g","s",".","p","d","f">>
PngExt  == <<".","p","n","g">>

\* --size values
SizePool ==
    { <<"3","0","x","3","0">>,
      <<"4","4","X","3","0">>,
      <<"3","0">>,
      <<"3","0","x","3","0","x","3","0">>,
      <<"x","3","0">>,
      <<"a","x","b">>,
      <<>> }

\* Raw lines the input files of main are made of
MainLinePool ==
    { <<"\n">>,
      <<"T","a","b","l","e"," ","1","\n">>,
      <<"A","l","\n">>,
      <<"B","o","\n">> }

MainFiles == UNION { [1..n -> MainLinePool] : n \in 0..MaxLines }

MainIdle ==
    /\ arg_size = <<>> /\ arg_input = <<>> /\ tag_wh = <<0, 0>> /\ out_dir = FALSE
    /\ entries = <<>> /\ tag_paths = <<>> /\ composed = 0 /\ disk = {}
    /\ exit_status = -1 /\ mpc = "idle"

MainInit ==
    /\ arg_size \in SizePool
    /\ arg_input \in MainFiles
    /\ tag_wh = <<0, 0>>
    /\ out_dir = FALSE
    /\ entries = <<>>
    /\ tag_paths = <<>>
    /\ composed = 0
    /\ disk = {}
    /\ exit_status = -1
    /\ mpc = "args"

\* Lines 323-324: --size parses
SizeAccepted ==
    /\ mpc = "args"
    /\ SizeParses(arg_size)
    /\ tag_wh' = SizeOf(arg_size)
    /\ mpc' = "mkdir"
    /\ UNCHANGED <<arg_size, arg_input, out_dir, entries, tag_paths, composed, disk,
                   exit_status>>
    /\ UNCHANGED notMain

\* Lines 325-326: ValueError, ap.error() prints the usage and exits with status 2
SizeRejected ==
    /\ mpc = "args"
    /\ ~SizeParses(arg_size)
    /\ exit_status' = 2
    /\ mpc' = "exit"
    /\ UNCHANGED <<arg_size, arg_input, tag_wh, out_dir, entries, tag_paths, composed,
                   disk>>
    /\ UNCHANGED notMain

\* Lines 328-329: out_dir.mkdir(exist_ok=True)
MakeOutDir ==
    /\ mpc = "mkdir"
    /\ out_dir' = TRUE
    /\ mpc' = "parse"
    /\ UNCHANGED <<arg_size, arg_input, tag_wh, entries, tag_paths, composed, disk,
                   exit_status>>
    /\ UNCHANGED notMain

\* Line 331: entries = parse_input(args.input), the file being readable
ReadEntries ==
    /\ mpc = "parse"
    /\ entries' = ParseInput(arg_input)
    /\ mpc' = "check"
    /\ UNCHANGED <<arg_size, arg_input, tag_wh, out_dir, tag_paths, composed, disk,
                   exit_status>>
    /\ UNCHANGED notMain

\* Lines 332-333: raise SystemExit("No names found in input."), status 1
NoNames ==
    /\ mpc = "check"
    /\ ~HasEntries(entries)
    /\ exit_status' = 1
    /\ mpc' = "exit"
    /\ UNCHANGED <<arg_size, arg_input, tag_wh, out_dir, entries, tag_paths, composed,
                   disk>>
    /\ UNCHANGED notMain

\* Line 332 falls through to the tag loop
NamesFound ==
    /\ mpc = "check"
    /\ HasEntries(entries)
    /\ mpc' = "tags"
    /\ UNCHANGED <<arg_size, arg_input, tag_wh, out_dir, entries, tag_paths, composed,
                   disk, exit_status>>
    /\ UNCHANGED notMain

\* One iteration of `for tbl, name in entries`: compose_tag, img.save, append
ComposeAndSave ==
    /\ mpc = "tags"
    /\ Len(tag_paths) < Len(entries)
    /\ LET e        == entries[Len(tag_paths) + 1]
           out_path == sanitize_filename(e[1] \o <<"_">> \o e[2]) \o PngExt
       IN /\ disk' = disk \cup {out_path}
          /\ tag_paths' = Append(tag_paths, out_path)
    /\ composed' = composed + 1
    /\ UNCHANGED <<arg_size, arg_input, tag_wh, out_dir, entries, exit_status, mpc>>
    /\ UNCHANGED notMain

\* Lines 352-363: build_pdf writes NameTags.pdf (--cols, --margin and
\* --page-size at their defaults), and main returns
BuildPdfAndReturn ==
    /\ mpc = "tags"
    /\ Len(tag_paths) = Len(entries)
    /\ disk' = disk \cup {PdfName}
    /\ exit_status' = 0
    /\ mpc' = "exit"
    /\ UNCHANGED <<arg_size, arg_input, tag_wh, out_dir, entries, tag_paths, composed>>
    /\ UNCHANGED notMain

MainNext ==
    \/ SizeAccepted \/ SizeRejected \/ MakeOutDir \/ ReadEntries
    \/ NoNames \/ NamesFound \/ ComposeAndSave \/ BuildPdfAndReturn

---------------------------------------------------------------------------
(* Properties of parse_input                                               *)

StrTable1 == <<"T","a","b","l","e"," ","1">>
StrAlice  == <<"A","l","i","c","e"," ","S","m","i","t","h">>
StrBob    == <<"B","o","b"," ","J","o","n","e","s">>
StrCarol  == <<"C","a","r","o","l"," ","L","e","e">>

\* C6, as claimed: parsing "Table 1", "Alice Smith", "Bob Jones", a blank line
\* and "Carol Lee" returns the three names with Carol Lee, who follows the
\* blank line, under the empty group label.
C6_CarolUnlabelled ==
    (fh = ScenarioFile /\ ppc = "done") =>
        results = << <<StrTable1, StrAlice>>, <<StrTable1, StrBob>>, <<<<>>, StrCarol>> >>

\* C6, as amended: parsing the same five lines returns the three names, all of
\* them under "Table 1": the blank line before Carol Lee does not end the
\* group.
C6_CarolKeepsTable ==
    (fh = ScenarioFile /\ ppc = "done") =>
        results = << <<StrTable1, StrAlice>>, <<StrTable1, StrBob>>,
                     <<StrTable1, StrCarol>> >>

C6_Witness == fh = ScenarioFile /\ ppc = "done" /\ Len(results) = 3

\* The claim's own reading of a raw line: blank when it holds white space
\* only; a marker when the text after its leading white space starts with
\* the letters t, a, b, l, e in either case.
ClaimBlank(raw) == \A i \in 1..Len(raw) : IsSpace(raw[i])

ClaimMarker(raw) ==
    \E k \in 0..Len(raw) :
       /\ \A i \in 1..k : IsSpace(raw[i])
       /\ Len(raw) >= k + 5
       /\ ~IsSpace(raw[k + 1])
       /\ raw[k + 1] \in {"t", "T"}
       /\ raw[k + 2] \in {"a", "A"}
       /\ raw[k + 3] \in {"b", "B"}
       /\ raw[k + 4] \in {"l", "L"}
       /\ raw[k + 5] \in {"e", "E"}

NameLines(f) == { i \in 1..Len(f) : ~ClaimBlank(f[i]) /\ ~ClaimMarker(f[i]) }

\* The k-th name line of f
NthNameLine(f, k) ==
    CHOOSE i \in NameLines(f) : Cardinality({ j \in NameLines(f) : j < i }) = k - 1

\* The stripped text of the last marker line before line i, or the empty text
LabelBefore(f, i) ==
    LET ms == { j \in 1..(i - 1) : ClaimMarker(f[j]) } IN
    IF ms = {} THEN <<>>
    ELSE Strip(f[CHOOSE j \in ms : \A h \in ms : h <= j])

\* C7: after any number of lines read, and so when parse_input returns,
\* results holds one (group-label, name) pair per line read that is neither
\* blank nor a marker, in input order, the name being the stripped line and the
\* label the stripped text of the latest marker line before it, or empty when
\* there is none; blank lines and marker lines add no pair, and a blank line
\* leaves the group label as it was.
C7_EntriesFollowMarkers ==
    ppc \in {"loop", "done"} =>
        LET f == SubSeq(fh, 1, pos) IN
        /\ Len(results) = Cardinality(NameLines(f))
        /\ \A k \in 1..Len(results) :
              results[k] = << LabelBefore(f, NthNameLine(f, k)),
                              Strip(f[NthNameLine(f, k)]) >>
        /\ current_table = LabelBefore(f, Len(f) + 1)

\* A file read to its end with a name before any marker, and a marker in
\* capitals, a blank line and a name in this order
C7_Witness ==
    /\ ppc = "done"
    /\ \E i, j, k \in 1..Len(fh) :
          /\ i < j /\ j < k
          /\ ClaimMarker(fh[i]) /\ Head(fh[i]) = "T"
          /\ ClaimBlank(fh[j])
          /\ k \in NameLines(fh)
    /\ Len(results) = 1
    /\ results[1][1] # <<>>

---------------------------------------------------------------------------
(* Properties of the decoration loop of compose_tag                        *)

\* C5: at every point of the decoration loop and at its end, any two distinct
\* accepted placements (cx1, cy1, r1) and (cx2, cy2, r2) of the canvas are at
\* Euclidean distance r1 + r2 or more, whichever of the two flags are set.
C5_PlacementsDisjoint ==
    \A i, j \in 1..Len(placed) :
       i < j =>
          LET dx == placed[i][1] - placed[j][1]
              dy == placed[i][2] - placed[j][2]
              s  == placed[i][3] + placed[j][3]
          IN dx * dx + dy * dy >= s * s

\* Two placements accepted with both flags set, and a shape given up
C5_Witness ==
    /\ random_bubbles /\ flowers
    /\ Len(placed) = 2
    /\ tpc = "while"
    /\ shape >= 3

\* The candidates that may still be sampled: the rest of the current shape's
\* budget and the whole budget of every shape not yet started
Budget ==
    IF tpc = "while"
    THEN (NUM_SHAPES - shape - 1) * RETRY_BUDGET + retries
    ELSE IF tpc = "start" THEN NUM_SHAPES * RETRY_BUDGET ELSE 0

InLoop == tpc \in {"start", "while"}

C9_Bounds ==
    /\ shape \in 0..NUM_SHAPES
    /\ Len(placed) <= shape
    /\ tpc = "while" =>
          /\ shape < NUM_SHAPES
          /\ retries \in 0..RETRY_BUDGET
          \* no randint is given an empty range (ValueError)
          /\ RadiusLo(size) <= RadiusHi(size)
          /\ \A r \in RadiusLo(size)..RadiusHi(size) :
                r <= size[1] - r /\ r <= size[2] - r
    /\ (tpc = "done" /\ (random_bubbles \/ flowers)) => shape = NUM_SHAPES
    /\ Budget \in 0..(NUM_SHAPES * RETRY_BUDGET)

C9_Step ==
    /\ tpc' \in {"start", "while", "done"}
    \* a sample uses up budget, and records at most one placement
    /\ (tpc = "while" /\ retries # 0) =>
          /\ Budget' < Budget
          /\ \/ placed' = placed /\ shape' = shape /\ retries' = retries - 1
             \/ Len(placed') = Len(placed) + 1 /\ shape' = shape + 1
    \* an exhausted shape is given up without a trace and the next one is tried
    /\ (tpc = "while" /\ retries = 0) =>
          /\ placed' = placed /\ stamps' = stamps
          /\ shape' = shape + 1
          /\ Budget' = Budget
    \* every shape but the last is followed by one with the full budget
    /\ (InLoop /\ shape' # shape) =>
          IF shape' < NUM_SHAPES THEN tpc' = "while" /\ retries' = RETRY_BUDGET
          ELSE tpc' = "done"
    \* progress: budget plus shapes still to end goes down with every step
    /\ InLoop => Budget' + (NUM_SHAPES - shape') < Budget + (NUM_SHAPES - shape) + 1
    /\ (InLoop /\ tpc # "start") =>
          Budget' + (NUM_SHAPES - shape') < Budget + (NUM_SHAPES - shape)

\* C9: with decoration requested the placement loop ends without raising: it
\* tries exactly 80 shapes, samples at most 50 candidates for each (at most
\* 4000 in all), records at most one placement per shape (at most 80), and a
\* shape whose 50 candidates were all rejected is dropped without a trace,
\* the next shape starting with the full budget of 50.
C9_LoopBounded == []C9_Bounds /\ [][C9_Step]_vars

\* The loop has ended after 80 shapes, two of them placed and 78 given up
C9_Witness ==
    /\ tpc = "done"
    /\ shape = NUM_SHAPES
    /\ Len(placed) = 2
    /\ random_bubbles

\* C10, as claimed: everything drawn for an accepted placement (cx, cy, r),
\* the bubble or the motif at the size given to draw_with_tilt, lies within
\* the disc of radius r around (cx, cy).
C10_DrawnWithinRadius ==
    \A k \in 1..Len(stamps) :
       Reach2(stamps[k]) <= (100 * placed[Len(placed)][3]) * (100 * placed[Len(placed)][3])

---------------------------------------------------------------------------
(* Properties of build_pdf                                                 *)

CeilDiv(n, d) == -FloorDiv(-n, d)

\* C1, as claimed: the rows-per-page value the layout uses is at least 1 for
\* every page size, margin, column count and tag aspect ratio.
C1_RowsAtLeastOne == bpc \in {"loop", "saved"} => rows >= 1

\* C2, as claimed: with cols >= 1 and margin >= 0 the cell box of every image
\* drawn lies between the margins: margin <= x, x + cell_w <= PAGE_W - margin,
\* margin <= y and y + cell_h <= PAGE_H - margin (all times cols * tag_w).
C2_CellsInsideMargins ==
    (cols >= 1 /\ margin_inch >= 0) =>
        \A k \in 1..Len(drawn) :
           LET d  == Den(cols, tag_size_px)
               m  == MarginOf(margin_inch)
               cw == CellW(page_size_name, margin_inch, cols, tag_size_px)
               ch == CellH(page_size_name, margin_inch, cols, tag_size_px)
           IN /\ m * d <= drawn[k].x
              /\ drawn[k].x + cw <= (PageW(page_size_name) - m) * d
              /\ m * d <= drawn[k].y
              /\ drawn[k].y + ch <= (PageH(page_size_name) - m) * d

\* C3, as claimed: for N >= 1 images, cols >= 1 and the computed rows, the
\* saved document has exactly ceil(N / (cols * rows)) pages.
C3_PageCount ==
    (bpc = "saved" /\ cols >= 1 /\ npaths >= 1) =>
        pages = CeilDiv(npaths, cols * rows)

\* C4, as claimed: image i is drawn on the page numbered i // slots_per_page
\* (counting the page breaks made before it), at row (i % slots_per_page) //
\* cols and column (i % slots_per_page) % cols; no two images share a slot and
\* slots follow the input order.
C4_SlotsInInputOrder ==
    cols >= 1 =>
        /\ \A k \in 1..Len(drawn) :
              LET i == drawn[k].idx IN
              /\ i = k - 1
              /\ drawn[k].page = FloorDiv(i, cols * rows)
              /\ drawn[k].row = FloorDiv(PyMod(i, cols * rows), cols)
              /\ drawn[k].col = PyMod(PyMod(i, cols * rows), cols)
        /\ \A k, h \in 1..Len(drawn) :
              k < h =>
                 /\ drawn[k].page <= drawn[h].page
                 /\ drawn[k].page = drawn[h].page =>
                       drawn[k].row * cols + drawn[k].col
                           < drawn[h].row * cols + drawn[h].col

---------------------------------------------------------------------------
(* Properties of main                                                      *)

\* main has ended on a configuration error: --size is malformed, or the
\* input holds no names
ConfigError ==
    /\ mpc = "exit"
    /\ ~SizeParses(arg_size) \/ ParseInput(arg_input) = <<>>

\* C8, as claimed: when main ends on a configuration error the exit status
\* is not zero, no tag has been composed, no file has been written and the
\* output directory has not been created.
C8_NothingProduced ==
    ConfigError =>
        /\ exit_status > 0
        /\ composed = 0
        /\ disk = {}
        /\ ~out_dir

\* C8, as amended: when main ends on a configuration error the exit status
\* is not zero, no tag has been composed and no file has been written; the
\* output directory has not been created when --size is malformed, and has
\* been created, and is empty, when the input holds no names.
C8_NoFileProduced ==
    ConfigError =>
        /\ exit_status > 0
        /\ composed = 0
        /\ disk = {}
        /\ out_dir = SizeParses(arg_size)

\* main has ended on an input with lines but no names
C8_Witness ==
    /\ mpc = "exit"
    /\ SizeParses(arg_size)
    /\ arg_input # <<>>
    /\ entries = <<>>
    /\ exit_status = 1

---------------------------------------------------------------------------
(* The specifications                                                      *)

InitParse == ParseInit /\ TagIdle /\ PdfIdle /\ MainIdle
InitTag   == TagInit /\ ParseIdle /\ PdfIdle /\ MainIdle
InitPdf   == PdfInit /\ ParseIdle /\ TagIdle /\ MainIdle
InitMain  == MainInit /\ ParseIdle /\ TagIdle /\ PdfIdle

SpecParse == InitParse /\ [][ParseNext]_vars
SpecTag   == InitTag /\ [][TagNext]_vars
SpecPdf   == InitPdf /\ [][PdfNext]_vars
SpecMain  == InitMain /\ [][MainNext]_vars

===========================================================================
